---- MODULE Spec2Model ----
(***************************************************************************)
(* Model of src/src/App.tsx: the tree builder buildMindMap, and the        *)
(* MindMapNode component that renders the built graph with one open flag   *)
(* per component instance.                                                 *)
(*                                                                         *)
(* Objects live in a heap (a sequence of Node records); a reference to a   *)
(* node is its index in the heap.  JavaScript strings are TLA+ strings.    *)
(***************************************************************************)
EXTENDS Integers, Sequences, FiniteSets, TLC

\* ---------------------------------------------------------------- bounds
MaxTracks == 2
MaxCallTracks == 2
MaxCalls == 3
MaxUITracks == 2
MaxRenderDepth == 6
MaxClicks == 4

\* ------------------------------------------------------ JavaScript values
\* the value undefined (an absent property, an absent parent, no return value)
undefined == 0
\* a value inherited from Object.prototype (a builtin function, or
\* Object.prototype itself for "__proto__"): truthy, and it has no property
\* "children"
inherited == -1

\* the property names every object literal inherits from Object.prototype
ObjectPrototypeKeys ==
  {"constructor", "__proto__", "toString", "toLocaleString", "valueOf",
   "hasOwnProperty", "isPrototypeOf", "propertyIsEnumerable",
   "__defineGetter__", "__defineSetter__", "__lookupGetter__",
   "__lookupSetter__"}

\* obj[key] on a plain object whose own properties are the function obj
Get(obj, key) ==
  IF key \in DOMAIN obj THEN obj[key]
  ELSE IF key \in ObjectPrototypeKeys THEN inherited
  ELSE undefined

\* obj[key] = value, for a key that is not an accessor of Object.prototype
Put(obj, key, value) ==
  [k \in (DOMAIN obj) \cup {key} |-> IF k = key THEN value ELSE obj[k]]

Truthy(v) == v # undefined

\* position of the first occurrence of the one-character string c in s, or 0
RECURSIVE indexOfFrom(_, _, _)
indexOfFrom(s, c, k) ==
  IF k > Len(s) THEN 0
  ELSE IF SubSeq(s, k, k) = c THEN k
  ELSE indexOfFrom(s, c, k + 1)

indexOf(s, c) == indexOfFrom(s, c, 1)

\* a split that drops the empty pieces
RECURSIVE splitSkipEmpty(_, _)
splitSkipEmpty(s, sep) ==
  LET k == indexOf(s, sep) IN
  IF k = 0 THEN (IF s = "" THEN <<>> ELSE <<s>>)
  ELSE (IF k = 1 THEN <<>> ELSE <<SubSeq(s, 1, k - 1)>>)
       \o splitSkipEmpty(SubSeq(s, k + 1, Len(s)), sep)

\* String.prototype.split with a one-character separator and no limit: the
\* pieces between separators, empty pieces kept, <<"">> for the empty string
RECURSIVE split(_, _)
split(s, sep) ==
  LET k == indexOf(s, sep) IN
  IF k = 0 THEN <<s>>
  ELSE <<SubSeq(s, 1, k - 1)>> \o split(SubSeq(s, k + 1, Len(s)), sep)

\* ------------------------------------------------------------ buildMindMap
\* line 34: the root object literal
rootNode ==
  [id |-> "root", label |-> "Music Library", children |-> <<>>,
   type |-> "artist", parent |-> undefined]

\* lines 38-44: the artist object literal
artistNodeLiteral(track, root) ==
  [id |-> track.Artist, label |-> track.Artist, children |-> <<>>,
   type |-> "artist", parent |-> root]

\* lines 51-57
trackNodeLiteral(track, artistNode) ==
  [id |-> track.Artist \o "-" \o track.TrackName, label |-> track.TrackName,
   children |-> <<>>, type |-> "track", parent |-> artistNode]

\* a year node without the reference back to its track
yearNodeLeaf(track, trackNode) ==
  [id |-> track.Artist \o "-" \o track.TrackName \o "-" \o track.Year,
   label |-> track.Year, children |-> <<>>, type |-> "year",
   parent |-> trackNode]

\* lines 61-67
yearNodeLiteral(track, trackNode) ==
  [id |-> track.Artist \o "-" \o track.TrackName \o "-" \o track.Year,
   label |-> track.Year, children |-> <<trackNode>>, type |-> "year",
   parent |-> trackNode]

\* lines 69-75: the object built by the map callback for one genre token
genreNodeLiteral(track, genre, trackNode) ==
  [id |-> track.Artist \o "-" \o track.TrackName \o "-" \o genre,
   label |-> genre, children |-> <<trackNode>>, type |-> "genre",
   parent |-> trackNode]

\* line 59: artistNode.children.push throws a TypeError when artistNode is
\* not a node, i.e. when artistMap[track.Artist] is a truthy inherited value
Throws(amap, track) == Get(amap, track.Artist) = inherited

\* lines 38-77: one call of the forEach callback that does not throw.
\* The result is the heap and the artist map after the call.
forEachBody(h, amap, root, track) ==
  LET found == Get(amap, track.Artist)
      artistNode == IF Truthy(found) THEN found ELSE Len(h) + 1
      h1 == IF Truthy(found) THEN h
            ELSE Append(h, artistNodeLiteral(track, root))
      h2 == IF ~Truthy(found)
            THEN [h1 EXCEPT ![root].children = Append(@, artistNode)]
            ELSE h1
      amap2 == IF ~Truthy(found) THEN Put(amap, track.Artist, artistNode)
               ELSE amap
      trackNode == Len(h2) + 1
      h3 == Append(h2, trackNodeLiteral(track, artistNode))
      h4 == [h3 EXCEPT ![artistNode].children = Append(@, trackNode)]
      yearNode == trackNode + 1
      h5 == Append(h4, yearNodeLiteral(track, trackNode))
      tokens == split(track.Genre, ";")
      genreNodes == [k \in 1..Len(tokens) |->
                       genreNodeLiteral(track, tokens[k], trackNode)]
      h6 == h5 \o genreNodes
      h7 == [h6 EXCEPT ![trackNode].children =
               @ \o <<yearNode>> \o [k \in 1..Len(tokens) |-> yearNode + k]]
  IN [heap |-> h7, artistMap |-> amap2]

\* line 37: tracks.forEach from index k on; stops at the first throw
RECURSIVE forEach(_, _, _, _, _)
forEach(h, amap, root, tracks_, k) ==
  IF k > Len(tracks_) THEN [threw |-> FALSE, heap |-> h]
  ELSE IF Throws(amap, tracks_[k]) THEN [threw |-> TRUE, heap |-> h]
  ELSE LET r == forEachBody(h, amap, root, tracks_[k])
       IN forEach(r.heap, r.artistMap, root, tracks_, k + 1)

\* lines 33-81 as a function of its argument, on an empty heap: the root is
\* node 1 of the returned heap
buildMindMap(tracks_) ==
  LET r == forEach(<<rootNode>>, <<>>, 1, tracks_, 1)
  IN IF r.threw THEN [threw |-> TRUE, root |-> undefined, heap |-> <<>>]
     ELSE [threw |-> FALSE, root |-> 1, heap |-> r.heap]

\* ------------------------------------------------------------------ inputs
Artists == {"", "a", "root", "constructor"}
TrackNames == {"t", "u"}
Years == {"1"}
Genres == {"", "g;h", "g;g", "1"}

Track == [Artist : Artists, TrackName : TrackNames, Year : Years, Genre : Genres]

RECURSIVE SeqsUpTo(_, _)
SeqsUpTo(S, n) ==
  IF n = 0 THEN {<<>>}
  ELSE LET shorter == SeqsUpTo(S, n - 1)
       IN shorter \cup {Append(s, x) : s \in {t \in shorter : Len(t) = n - 1}, x \in S}

Inputs == SeqsUpTo(Track, MaxTracks)

\* the records of the invocation sequences (a second, smaller input domain)
CallTracks ==
  {[Artist |-> "a", TrackName |-> "t", Year |-> "1", Genre |-> "g;h"],
   [Artist |-> "constructor", TrackName |-> "t", Year |-> "1", Genre |-> ""]}

CallInputs == SeqsUpTo(CallTracks, MaxCallTracks)

\* the record sequences handed to the App (the output of parseCSV)
UITracks ==
  {[Artist |-> "a", TrackName |-> "t", Year |-> "1", Genre |-> "g;h"],
   [Artist |-> "b", TrackName |-> "u", Year |-> "2", Genre |-> ""],
   [Artist |-> "toString", TrackName |-> "t", Year |-> "1", Genre |-> "g"]}

UIInputs == SeqsUpTo(UITracks, MaxUITracks)

\* ------------------------------------------------------------------- state
VARIABLES
  heap,       \* the objects allocated so far, in allocation order
  tracks,     \* the argument of the current buildMindMap call
  pc,         \* "call", "forEach", "done" (returned) or "threw"
  root,       \* the local root of the current call (a heap index)
  artistMap,  \* the local artistMap of the current call
  i,          \* index of the next element forEach visits
  ret,        \* the value the current call returned, undefined before
  history,    \* the finished earlier calls: argument and outcome of each
  mindMap,    \* the App's mindMap state: undefined (null) or the root
  open,       \* isOpen of every mounted MindMapNode instance, by its path
  work,       \* isOpen of every instance of the render in progress
  phase,      \* "idle", or "render" while a render is in progress
  clicks      \* number of toggles so far

vars ==
  <<heap, tracks, pc, root, artistMap, i, ret, history, mindMap, open, work,
    phase, clicks>>

buildVars == <<heap, tracks, pc, root, artistMap, i, ret>>
uiVars == <<mindMap, open, work, phase, clicks>>

\* the current call has ended, by returning or by throwing
Finished == pc \in {"done", "threw"}

InitWith(inputs) ==
  /\ tracks \in inputs
  /\ heap = <<>>
  /\ pc = "call"
  /\ root = undefined
  /\ artistMap = <<>>
  /\ i = 1
  /\ ret = undefined
  /\ history = <<>>
  /\ mindMap = undefined
  /\ open = <<>>
  /\ work = <<>>
  /\ phase = "idle"
  /\ clicks = 0

Init == InitWith(Inputs)

\* a stale map: the one the previous call left behind
staleArtistMap == artistMap

\* line 35: const artistMap = {}
newArtistMap == <<>>

\* lines 34-35: entering buildMindMap allocates the root and the artist map
Enter ==
  /\ pc = "call"
  /\ heap' = Append(heap, rootNode)
  /\ root' = Len(heap) + 1
  /\ artistMap' = newArtistMap
  /\ i' = 1
  /\ pc' = "forEach"
  /\ UNCHANGED <<tracks, ret, history, uiVars>>

\* lines 37-78: the forEach callback runs for tracks[i] and completes
Iterate ==
  /\ pc = "forEach"
  /\ i <= Len(tracks)
  /\ ~Throws(artistMap, tracks[i])
  /\ LET r == forEachBody(heap, artistMap, root, tracks[i])
     IN /\ heap' = r.heap
        /\ artistMap' = r.artistMap
  /\ i' = i + 1
  /\ UNCHANGED <<tracks, pc, root, ret, history, uiVars>>

\* line 59 throws: forEach stops and the TypeError leaves buildMindMap
IterateThrows ==
  /\ pc = "forEach"
  /\ i <= Len(tracks)
  /\ Throws(artistMap, tracks[i])
  /\ pc' = "threw"
  /\ UNCHANGED <<heap, tracks, root, artistMap, i, ret, history, uiVars>>

\* line 80: return root
Return ==
  /\ pc = "forEach"
  /\ i > Len(tracks)
  /\ ret' = root
  /\ pc' = "done"
  /\ UNCHANGED <<heap, tracks, root, artistMap, i, history, uiVars>>

Next == Enter \/ Iterate \/ IterateThrows \/ Return

Spec == Init /\ [][Next]_vars

\* ------------------------------------------------- successive invocations
\* a node of the current call with its references made relative to the
\* call's first allocation, so that the results of two calls can be compared
Relocate(n, base) ==
  [id |-> n.id, label |-> n.label, type |-> n.type,
   children |-> [k \in DOMAIN n.children |-> n.children[k] - base],
   parent |-> IF n.parent = undefined THEN undefined ELSE n.parent - base]

\* what the finished call delivered: the TypeError, or the returned root with
\* every object allocated by the call (shape, order, labels, types, ids)
Outcome ==
  IF pc = "threw" THEN [threw |-> TRUE]
  ELSE [threw |-> FALSE,
        root |-> ret - (root - 1),
        nodes |-> [k \in 1..(Len(heap) - (root - 1)) |->
                     Relocate(heap[k + (root - 1)], root - 1)]]

\* buildMindMap is called again (lines 33, 120) after an earlier call ended;
\* the objects of the earlier calls stay in the heap, the locals of the
\* ended call are dead until Enter initialises the new ones
CallAgain ==
  /\ Finished
  /\ Len(history) + 1 < MaxCalls
  /\ history' = Append(history, [tracks |-> tracks, outcome |-> Outcome])
  /\ tracks' \in CallInputs
  /\ pc' = "call"
  /\ ret' = undefined
  /\ UNCHANGED <<heap, root, artistMap, i, uiVars>>

InitCalls == InitWith(CallInputs)

NextCalls == Enter \/ Iterate \/ IterateThrows \/ Return \/ CallAgain

SpecCalls == InitCalls /\ [][NextCalls]_vars

\* ------------------------------------------------------ App and MindMapNode
\* A MindMapNode instance is identified by its position under the instance
\* of the root: the sequence of child indices leading to it.  React renders
\* the instances one at a time, parent before children and children in
\* order, into a work-in-progress tree, and commits that tree (mounts it,
\* with its click handlers) only when no instance is left to render.

\* the node rendered by the instance at path p under the instance of node h
RECURSIVE NodeFrom(_, _)
NodeFrom(h, p) ==
  IF p = <<>> THEN h ELSE NodeFrom(heap[h].children[Head(p)], Tail(p))

StrictPrefix(p, q) == Len(p) < Len(q) /\ SubSeq(q, 1, Len(p)) = p

\* p comes before q in the order of rendering (parent first, then the
\* children from left to right)
RECURSIVE RendersBefore(_, _)
RendersBefore(p, q) ==
  IF p = <<>> THEN q # <<>>
  ELSE IF q = <<>> THEN FALSE
  ELSE IF Head(p) # Head(q) THEN Head(p) < Head(q)
  ELSE RendersBefore(Tail(p), Tail(q))

\* lines 102-108: the instances the render in progress still has to render:
\* the root instance, and one instance per element of node.children of
\* every rendered instance that is open and has children
Pending ==
  IF <<>> \notin DOMAIN work THEN {<<>>}
  ELSE {r \in UNION {{p \o <<k>> :
                        k \in DOMAIN heap[NodeFrom(mindMap, p)].children} :
                       p \in {q \in DOMAIN work : work[q]}} :
          r \notin DOMAIN work}

\* the instance rendered next
NextInstance ==
  CHOOSE p \in Pending : \A q \in Pending \ {p} : RendersBefore(p, q)

\* lines 117-121 and 129: the effect of App stores the built tree in mindMap,
\* and App starts to render <MindMapNode node={mindMap} />
SetMindMap ==
  /\ pc = "done"
  /\ mindMap = undefined
  /\ mindMap' = ret
  /\ phase' = "render"
  /\ work' = <<>>
  /\ UNCHANGED <<buildVars, history, open, clicks>>

\* lines 83-110: one new MindMapNode instance is rendered, with isOpen = true
\* (line 84).  Nothing in the code limits the depth; the guard on the length
\* of the path bounds the model.
RenderStep ==
  /\ phase = "render"
  /\ Pending # {}
  /\ Len(NextInstance) <= MaxRenderDepth
  /\ work' = [q \in (DOMAIN work) \cup {NextInstance} |->
                IF q \in DOMAIN work THEN work[q] ELSE TRUE]
  /\ UNCHANGED <<buildVars, history, mindMap, open, phase, clicks>>

\* the render has no instance left to render: the work-in-progress tree is
\* mounted
Commit ==
  /\ phase = "render"
  /\ Pending = {}
  /\ open' = work
  /\ work' = <<>>
  /\ phase' = "idle"
  /\ UNCHANGED <<buildVars, history, mindMap, clicks>>

\* line 86 (onClick / onKeyPress of the mounted instance at path p):
\* setIsOpen(!isOpen) starts a render in which p has the negated flag, the
\* instances not below p keep their state, and the instances below p are
\* gone (closing) or still to be rendered as new instances (opening)
toggleNode(p) ==
  /\ phase = "idle"
  /\ p \in DOMAIN open
  /\ clicks < MaxClicks
  /\ clicks' = clicks + 1
  /\ work' = [q \in {r \in DOMAIN open : ~StrictPrefix(p, r)} |->
                IF q = p THEN ~open[p] ELSE open[q]]
  /\ phase' = "render"
  /\ UNCHANGED <<buildVars, history, mindMap, open>>

Toggle == \E p \in DOMAIN open : toggleNode(p)

InitUI == InitWith(UIInputs)

NextUI ==
  Enter \/ Iterate \/ IterateThrows \/ Return \/ SetMindMap \/ RenderStep
    \/ Commit \/ Toggle

SpecUI == InitUI /\ [][NextUI]_vars

\* --------------------------------------------------- reading the built tree
\* the nodes the current call has allocated
CallNodes == IF pc = "call" THEN {} ELSE root..Len(heap)

\* the number of records whose callback has completed
Processed == IF pc = "call" THEN 0 ELSE i - 1

Range(s) == {s[k] : k \in DOMAIN s}

Labels(hs) == [k \in DOMAIN hs |-> heap[hs[k]].label]

\* the elements of s in order of first appearance, each once
RECURSIVE DistinctUpTo(_, _)
DistinctUpTo(s, n) ==
  IF n = 0 THEN <<>>
  ELSE LET d == DistinctUpTo(s, n - 1)
       IN IF \E k \in 1..(n - 1) : s[k] = s[n] THEN d ELSE Append(d, s[n])

Distinct(s) == DistinctUpTo(s, Len(s))

ArtistColumn == [k \in DOMAIN tracks |-> tracks[k].Artist]

\* the TrackName values of the records naming artist a, in input order
RECURSIVE TrackNamesOfUpTo(_, _)
TrackNamesOfUpTo(a, n) ==
  IF n = 0 THEN <<>>
  ELSE IF tracks[n].Artist = a
       THEN Append(TrackNamesOfUpTo(a, n - 1), tracks[n].TrackName)
       ELSE TrackNamesOfUpTo(a, n - 1)

TrackNamesOf(a) == TrackNamesOfUpTo(a, Len(tracks))

TrackNodes == {h \in CallNodes : heap[h].type = "track"}

\* the j-th track node of the current call, in allocation order
TrackNode(j) ==
  CHOOSE h \in TrackNodes : Cardinality({g \in TrackNodes : g < h}) = j - 1

RECURSIVE CountCharFrom(_, _, _)
CountCharFrom(s, c, k) ==
  IF k > Len(s) THEN 0
  ELSE (IF SubSeq(s, k, k) = c THEN 1 ELSE 0) + CountCharFrom(s, c, k + 1)

CountChar(s, c) == CountCharFrom(s, c, 1)

RECURSIVE JoinUpTo(_, _, _)
JoinUpTo(ss, sep, n) ==
  IF n = 0 THEN ""
  ELSE IF n = 1 THEN ss[1]
  ELSE JoinUpTo(ss, sep, n - 1) \o sep \o ss[n]

Join(ss, sep) == JoinUpTo(ss, sep, Len(ss))

\* the stepwise run of a first call builds the heap that buildMindMap gives
\* as a function of the input, and throws on the same inputs
StepwiseIsBuildMindMap ==
  (Finished /\ root = 1) =>
    /\ buildMindMap(tracks).threw = (pc = "threw")
    /\ pc = "done" => buildMindMap(tracks).heap = heap /\ ret = 1

\* ------------------------------------------------------------------ claims

\* C1: when buildMindMap has finished on an input, the labels of the root's
\* children, read in order, are the distinct Artist values of the whole
\* input in order of first appearance, whatever the artist names are.
C1_RootChildrenAreDistinctArtists ==
  Finished => Labels(heap[root].children) = Distinct(ArtistColumn)

\* C1 restricted to the calls that return
C1_OnReturn ==
  pc = "done" => Labels(heap[ret].children) = Distinct(ArtistColumn)

\* C2: buildMindMap is total: no call ends by raising an error.
C2_NoError == pc # "threw"

\* C3: in the tree a call returns, no two distinct nodes have the same id.
C3_UniqueIds ==
  pc = "done" =>
    \A g \in CallNodes : \A h \in CallNodes : g # h => heap[g].id # heap[h].id

\* C4: when buildMindMap has finished on an input, every record has one track
\* node of its own: the labels of each artist node's children are the
\* TrackName values of the records naming that artist, in input order with
\* repeats, and there are as many track nodes as input records.
C4_OneTrackNodePerRecord ==
  Finished =>
    /\ \A a \in Range(heap[root].children) :
         Labels(heap[a].children) = TrackNamesOf(heap[a].label)
    /\ Cardinality(TrackNodes) = Len(tracks)

\* C4 restricted to the calls that return
C4_OnReturn ==
  pc = "done" =>
    /\ \A a \in Range(heap[ret].children) :
         /\ Labels(heap[a].children) = TrackNamesOf(heap[a].label)
         /\ \A k \in DOMAIN heap[a].children :
              /\ heap[heap[a].children[k]].type = "track"
              /\ heap[heap[a].children[k]].parent = a
    /\ Cardinality(TrackNodes) = Len(tracks)

\* C5: the children of the track node of every processed record are one year
\* node labelled with the record's Year followed by one genre node per piece
\* of the record's Genre between ';' separators, in order, verbatim; so
\* 1 + k children, k = 1 + the number of ';' in Genre (k = 1 and one genre
\* node with the empty label for the empty Genre).
C5_TrackChildren ==
  \A j \in 1..Processed :
    LET ch == heap[TrackNode(j)].children
        genreLabels == [k \in 1..(Len(ch) - 1) |-> heap[ch[k + 1]].label]
    IN /\ heap[TrackNode(j)].label = tracks[j].TrackName
       /\ Len(ch) = 1 + (1 + CountChar(tracks[j].Genre, ";"))
       /\ heap[ch[1]].type = "year"
       /\ heap[ch[1]].label = tracks[j].Year
       /\ \A k \in 2..Len(ch) :
            /\ heap[ch[k]].type = "genre"
            /\ indexOf(heap[ch[k]].label, ";") = 0
       /\ Join(genreLabels, ";") = tracks[j].Genre

\* a returned tree with a record of empty Genre (two children, the second
\* labelled "") and a record with the repeated token "g;g" (three children)
C5_Witness ==
  /\ pc = "done"
  /\ \E j \in 1..Len(tracks) :
       /\ tracks[j].Genre = ""
       /\ Len(heap[TrackNode(j)].children) = 2
       /\ heap[heap[TrackNode(j)].children[2]].label = ""
  /\ \E j \in 1..Len(tracks) :
       /\ tracks[j].Genre = "g;g"
       /\ Len(heap[TrackNode(j)].children) = 3

\* C7: every finished call has returned one root node, with id 'root', type
\* 'artist' and no parent (the only node without a parent); for the empty
\* input the root has no children.
C7_ReturnsRoot ==
  Finished =>
    /\ ret \in CallNodes
    /\ heap[ret].id = "root"
    /\ heap[ret].type = "artist"
    /\ heap[ret].parent = undefined
    /\ \A h \in CallNodes : heap[h].parent = undefined => h = ret
    /\ (tracks = <<>> => heap[ret].children = <<>>)

\* C7 restricted to the calls that return
C7_OnReturn ==
  pc = "done" =>
    /\ ret \in CallNodes
    /\ heap[ret].id = "root"
    /\ heap[ret].type = "artist"
    /\ heap[ret].parent = undefined
    /\ \A h \in CallNodes : heap[h].parent = undefined => h = ret
    /\ (tracks = <<>> => heap[ret].children = <<>>)

\* C9: every year and genre node has as its children exactly its record's
\* track node, which is also its parent; each track node occurs among the
\* children of its artist node and is the one child of each of its own 1 + k
\* children, so the children relation has the cycle track -> year/genre ->
\* track for every processed record.
C9_BackReferences ==
  /\ \A h \in CallNodes :
       heap[h].type \in {"year", "genre"} =>
         /\ heap[h].parent \in TrackNodes
         /\ heap[h].children = <<heap[h].parent>>
         /\ h \in Range(heap[heap[h].parent].children)
  /\ \A j \in 1..Processed :
       LET t == TrackNode(j) IN
       /\ heap[heap[t].parent].label = tracks[j].Artist
       /\ Cardinality({k \in DOMAIN heap[heap[t].parent].children :
                         heap[heap[t].parent].children[k] = t}) = 1
       /\ Len(heap[t].children) = 2 + CountChar(tracks[j].Genre, ";")
       /\ \A k \in DOMAIN heap[t].children :
            /\ heap[heap[t].children[k]].children = <<t>>
            /\ heap[heap[t].children[k]].parent = t
            /\ heap[heap[t].children[k]].type \in {"year", "genre"}

\* a returned tree of two records in which a track with three children is
\* the only child of each of them
C9_Witness ==
  /\ pc = "done"
  /\ Len(tracks) = 2
  /\ \E t \in TrackNodes :
       /\ Len(heap[t].children) = 3
       /\ \A k \in 1..3 : heap[heap[t].children[k]].children = <<t>>

\* the finished calls so far, the current one included once it has ended
Calls ==
  IF Finished THEN Append(history, [tracks |-> tracks, outcome |-> Outcome])
  ELSE history

\* C6: any two invocations on identical input sequences, whatever was
\* invoked before or between them, deliver identical outcomes: the same
\* shape, child order, labels, kinds and identity strings.
C6_Deterministic ==
  \A j \in DOMAIN Calls : \A k \in DOMAIN Calls :
    Calls[j].tracks = Calls[k].tracks => Calls[j].outcome = Calls[k].outcome

\* the third call has returned a tree for the two-record input of the first
\* call, after a call on a different input
C6_Witness ==
  /\ pc = "done"
  /\ Len(history) = 2
  /\ Len(tracks) = 2
  /\ history[1].tracks = tracks
  /\ history[2].tracks # tracks
  /\ Len(heap[ret].children) >= 1

\* the instances rendered so far: the mounted ones and those of the render
\* in progress
Rendered == (DOMAIN open) \cup (DOMAIN work)

\* C10: rendering the built tree terminates.  Every instance starts open and
\* renders all children of its node, so the recursion ends exactly when no
\* chain of instances comes back to a node already on the chain; and the
\* instances of year and genre nodes are leaves, with no instance below.
C10_RenderTerminates ==
  mindMap # undefined =>
    \A p \in Rendered :
      /\ \A a \in 0..Len(p) : \A b \in 0..Len(p) :
           a < b => NodeFrom(mindMap, SubSeq(p, 1, a)) #
                    NodeFrom(mindMap, SubSeq(p, 1, b))
      /\ heap[NodeFrom(mindMap, p)].type \in {"year", "genre"} =>
           \A q \in Rendered : ~StrictPrefix(p, q)

\* while the render of a tree with a record is in progress, nothing is
\* mounted: no instance of such a tree is ever there to be toggled
NothingMountedOfNonEmptyTree ==
  (mindMap # undefined /\ heap[mindMap].children # <<>>) =>
    (phase = "render" /\ open = <<>>)

====
